---- MODULE Spec2Model ----
(***************************************************************************)
(* Mood wall: the spreadsheet-backed card service and the client's image   *)
(* fragment splitter.                                                      *)
(*                                                                         *)
(* The repository holds the card service twice: src/app.js and the server  *)
(* file src/unnamed/part_000.  Both are modelled; the variable `server'    *)
(* says which one the process runs.  Definitions without a prefix model    *)
(* part_000, definitions starting with App model src/app.js.               *)
(*                                                                         *)
(* Conventions.                                                            *)
(*  - A JavaScript string is a TLA+ string.  A JavaScript number is        *)
(*    written as its decimal numeral (String(n)), the form in which it     *)
(*    crosses every boundary of this program (JSON body, sheet cell).      *)
(*    The model covers integer numerals.                                   *)
(*  - A JavaScript object is a function whose DOMAIN is the set of its     *)
(*    own keys; an array written to the sheet is a function from column    *)
(*    numbers whose missing columns are the undefined entries.             *)
(*  - The sheet is a sequence of rows, each a tuple of SheetCols cell      *)
(*    texts; "" is the empty cell.  values.get over A:L returns the first  *)
(*    Cols cells of every row.                                             *)
(***************************************************************************)
EXTENDS Integers, Sequences, FiniteSets, TLC

VARIABLES server, sheets, cachedSheetTitle, store, res,
          str, arr, card, row, back, img, procs, client

vars == <<server, sheets, cachedSheetTitle, store, res,
          str, arr, card, row, back, img, procs, client>>

serverVars == <<server, sheets, cachedSheetTitle, store, res>>

splitVars == <<str, arr>>

mapperVars == <<card, row, back>>

imageVars == <<img>>

raceVars == <<procs>>

clientVars == <<client>>

(***************************************************************************)
(* Bounds of the model                                                     *)
(***************************************************************************)
MaxRows == 3

MaxBodyLen == 5

(***************************************************************************)
(* Program constants                                                       *)
(***************************************************************************)
MAX_CARDS == 2

MAX_IMAGE_SIZE_KB == 1

MAX_IMAGE_SIZE_BYTES == MAX_IMAGE_SIZE_KB * 1024

MAX_TEXT == 500

Cols == 12

SheetCols == Cols + 1

COLUMNS == <<"id", "text", "mood", "style", "header", "part1", "part2",
             "part3", "x", "y", "r", "created_at">>

SHEET_NAME == "cards"

(***************************************************************************)
(* JavaScript string and number primitives                                 *)
(***************************************************************************)
Min(a, b) == IF a < b THEN a ELSE b

\* Math.ceil(a / n) for a >= 0, n > 0
Ceil(a, n) == (a + n - 1) \div n

\* String.prototype.slice(from, to) for 0 <= from, 0 <= to
Slice(s, from, to) ==
    LET lo == Min(from, Len(s))
        hi == Min(to, Len(s))
    IN IF lo >= hi THEN "" ELSE SubSeq(s, lo + 1, hi)

CharAt(s, i) == Slice(s, i, i + 1)

Digits == {"0", "1", "2", "3", "4", "5", "6", "7", "8", "9"}

RECURSIVE Rep(_, _)
Rep(c, n) == IF n = 0 THEN ""
             ELSE IF n % 2 = 0 THEN Rep(c \o c, n \div 2)
             ELSE c \o Rep(c, n - 1)

RECURSIVE DigitPrefix(_, _)
\* number of leading decimal digits of s from offset i
DigitPrefix(s, i) ==
    IF CharAt(s, i) \in Digits THEN 1 + DigitPrefix(s, i + 1) ELSE 0

RECURSIVE StripZeros(_)
StripZeros(d) ==
    IF Len(d) > 1 /\ CharAt(d, 0) = "0" THEN StripZeros(Slice(d, 1, Len(d)))
    ELSE d

\* parseInt(s) / parseFloat(s) on integer numerals: optional sign, the
\* longest digit prefix, NaN when there is none
ParseNumber(s) ==
    LET neg == CharAt(s, 0) = "-"
        off == IF CharAt(s, 0) \in {"-", "+"} THEN 1 ELSE 0
        n   == DigitPrefix(s, off)
        mag == StripZeros(Slice(s, off, off + n))
    IN IF n = 0 THEN "NaN"
       ELSE IF neg /\ mag # "0" THEN "-" \o mag ELSE mag

\* Number(v): the whole string must be a numeral; "" is 0
ToNumber(s) ==
    IF s = "" THEN "0"
    ELSE LET off == IF CharAt(s, 0) \in {"-", "+"} THEN 1 ELSE 0
         IN IF DigitPrefix(s, off) = Len(s) - off /\ Len(s) > off
            THEN ParseNumber(s) ELSE "NaN"

\* n || d for a number n
NumOr(n, d) == IF n \in {"NaN", "0"} THEN d ELSE n

\* s || d for a string s (undefined and "" are both falsy)
StrOr(s, d) == IF s = "" THEN d ELSE s

RECURSIVE Join(_)
\* Array.prototype.join('')
Join(parts) == IF parts = <<>> THEN "" ELSE Head(parts) \o Join(Tail(parts))

\* obj.key with undefined read as the empty string
Get(obj, key) == IF key \in DOMAIN obj THEN obj[key] ELSE ""

\* { ...a, ...b }
Spread(a, b) ==
    [k \in DOMAIN a \cup DOMAIN b |-> IF k \in DOMAIN b THEN b[k] ELSE a[k]]

(***************************************************************************)
(* Chunk splitter (client)                                                 *)
(***************************************************************************)
splitBase64Floor(s, n) ==
    LET len == Len(s) \div n
    IN [i \in 1..n |-> Slice(s, (i - 1) * len, i * len)]

splitBase64Round(s, n) ==
    LET len == (2 * Len(s) + n) \div (2 * n)
    IN [i \in 1..n |-> Slice(s, (i - 1) * len, i * len)]

splitBase64(s, n) ==
    LET len == Ceil(Len(s), n)
    IN [i \in 1..n |-> Slice(s, (i - 1) * len, i * len)]

(***************************************************************************)
(* Card record mapper (part_000)                                           *)
(***************************************************************************)
\* rowToCard's null result; IsNull(c) is c === null
NullCard == [null |-> TRUE]

IsNull(c) == DOMAIN c = {"null"}

\* The value null in a string-valued field
null == "<null>"

\* row.length === 0: values.get drops trailing empty cells
RowLength(r) ==
    LET used == {i \in 1..Cols : r[i] # ""}
    IN IF used = {} THEN 0 ELSE CHOOSE i \in used : \A j \in used : j <= i

\* [a, b, c].filter(p => p && p.length > 0)
FilterParts(ps) == SelectSeq(ps, LAMBDA p : p # "")

rowToCardNoSkip(r) ==
    IF RowLength(r) = 0 THEN NullCard
    ELSE [id        |-> r[1],
          text      |-> StrOr(r[2], ""),
          mood      |-> NumOr(ParseNumber(r[3]), "1"),
          style     |-> StrOr(r[4], "polaroid"),
          header    |-> StrOr(r[5], ""),
          parts     |-> FilterParts(<<r[6], r[7], r[8]>>),
          x         |-> NumOr(ParseNumber(r[9]), "0"),
          y         |-> NumOr(ParseNumber(r[10]), "0"),
          r         |-> NumOr(ParseNumber(r[11]), "0"),
          createdAt |-> StrOr(r[12], null)]

rowToCardNoDefault(r) ==
    IF RowLength(r) = 0 THEN NullCard
    ELSE IF r[1] = "id" \/ r[1] = "ID" THEN NullCard
    ELSE [id        |-> r[1],
          text      |-> StrOr(r[2], ""),
          mood      |-> NumOr(ParseNumber(r[3]), "1"),
          style     |-> r[4],
          header    |-> StrOr(r[5], ""),
          parts     |-> FilterParts(<<r[6], r[7], r[8]>>),
          x         |-> NumOr(ParseNumber(r[9]), "0"),
          y         |-> NumOr(ParseNumber(r[10]), "0"),
          r         |-> NumOr(ParseNumber(r[11]), "0"),
          createdAt |-> StrOr(r[12], null)]

rowToCard(r) ==
    IF RowLength(r) = 0 THEN NullCard
    ELSE IF r[1] = "id" \/ r[1] = "ID" THEN NullCard
    ELSE [id        |-> r[1],
          text      |-> StrOr(r[2], ""),
          mood      |-> NumOr(ParseNumber(r[3]), "1"),
          style     |-> StrOr(r[4], "polaroid"),
          header    |-> StrOr(r[5], ""),
          parts     |-> FilterParts(<<r[6], r[7], r[8]>>),
          x         |-> NumOr(ParseNumber(r[9]), "0"),
          y         |-> NumOr(ParseNumber(r[10]), "0"),
          r         |-> NumOr(ParseNumber(r[11]), "0"),
          createdAt |-> StrOr(r[12], null)]

\* A layout that starts one fragment late
PartOrShifted(c, i) ==
    LET p == IF "parts" \in DOMAIN c THEN c.parts ELSE <<>>
    IN IF i + 1 <= Len(p) THEN p[i + 1] ELSE ""

\* p[i] || '' on card.parts || []
PartOr(c, i) ==
    LET p == IF "parts" \in DOMAIN c THEN c.parts ELSE <<>>
    IN IF i <= Len(p) THEN p[i] ELSE ""

\* The columns of the array literal that hold a defined value
cardToRowDefined(c) ==
    {1 : k \in {"id"} \cap DOMAIN c} \cup {2 : k \in {"text"} \cap DOMAIN c}
    \cup {3 : k \in {"mood"} \cap DOMAIN c}
    \cup {4 : k \in {"style"} \cap DOMAIN c}
    \cup {5 : k \in {"header"} \cap DOMAIN c}
    \cup {6, 7, 8, 12}
    \cup {9 : k \in {"x"} \cap DOMAIN c} \cup {10 : k \in {"y"} \cap DOMAIN c}
    \cup {11 : k \in {"r"} \cap DOMAIN c}

cardToRow(c) ==
    [i \in cardToRowDefined(c) |->
        CASE i = 1  -> c.id
          [] i = 2  -> c.text
          [] i = 3  -> c.mood
          [] i = 4  -> c.style
          [] i = 5  -> c.header
          [] i = 6  -> PartOr(c, 1)
          [] i = 7  -> PartOr(c, 2)
          [] i = 8  -> PartOr(c, 3)
          [] i = 9  -> c.x
          [] i = 10 -> c.y
          [] i = 11 -> c.r
          [] i = 12 -> IF Get(c, "createdAt") = null THEN ""
                       ELSE Get(c, "createdAt")]

\* The cells an array holds once it is a row of the sheet: an undefined
\* entry leaves its cell empty
AsCells(a) == [i \in 1..SheetCols |-> IF i \in DOMAIN a THEN a[i] ELSE ""]

(***************************************************************************)
(* The backing sheet (Google Sheets API as the servers use it)             *)
(***************************************************************************)
\* The title of the first sheet of the spreadsheet
SheetTitle == SHEET_NAME

\* One store call of a request and whether it succeeded
Call(name, ok) == [call |-> name, ok |-> ok]

\* values.get over <title>!A:L
ReadRange(s) == [i \in 1..Len(s) |-> [j \in 1..Cols |-> s[i][j]]]

\* values.append: one row after the last row
AppendRow(s, a) == Append(s, AsCells(a))

\* A row of the grid below the last row with data
BlankRow == [j \in 1..SheetCols |-> ""]

\* values.update of the 1-indexed row sheetRow: the defined entries of a
\* overwrite their cells, every other cell keeps its text.  A row below
\* the data is a blank row of the grid, and so are the rows between
UpdateRow(s, sheetRow, a) ==
    IF sheetRow \in 1..Len(s)
    THEN [s EXCEPT ![sheetRow] =
             [j \in 1..SheetCols |-> IF j \in DOMAIN a THEN a[j] ELSE @[j]]]
    ELSE [i \in 1..sheetRow |->
             IF i <= Len(s) THEN s[i]
             ELSE IF i < sheetRow THEN BlankRow ELSE AsCells(a)]

DeleteRowOneBased(s, startIndex) ==
    [i \in 1..(Len(s) - 1) |-> IF i < startIndex THEN s[i] ELSE s[i + 1]]

\* batchUpdate deleteDimension ROWS [startIndex, startIndex + 1), 0-indexed;
\* a row below the data is a blank row of the grid
DeleteRow(s, startIndex) ==
    IF startIndex >= Len(s) THEN s
    ELSE [i \in 1..(Len(s) - 1) |-> IF i <= startIndex THEN s[i] ELSE s[i + 1]]

\* rows.findIndex(row => row[0] === id), 0-indexed, -1 when there is none
FindIndex(rows, id) ==
    LET hits == {i \in 1..Len(rows) : rows[i][1] = id}
    IN IF hits = {} THEN -1
       ELSE (CHOOSE i \in hits : \A j \in hits : i <= j) - 1

\* What a handler leaves behind: the response, the sheet, the metadata cache
\* and the store calls it issued, in order
Outcome(status, error, body, calls, title, s) ==
    [status |-> status, error |-> error, body |-> body, calls |-> calls,
     title |-> title, store |-> s]

\* Which of the store calls of one request fail, when they are issued
Faults == [meta : BOOLEAN, read : BOOLEAN, write : BOOLEAN]

(***************************************************************************)
(* part_000: helpers                                                       *)
(***************************************************************************)
getSheetInfo(cache, f) ==
    IF ~sheets THEN [threw |-> TRUE, title |-> cache, calls |-> <<>>]
    ELSE IF cache # "" THEN [threw |-> FALSE, title |-> cache, calls |-> <<>>]
    ELSE IF f.meta
         THEN [threw |-> TRUE, title |-> cache,
               calls |-> <<Call("spreadsheets.get", FALSE)>>]
         ELSE [threw |-> FALSE, title |-> SheetTitle,
               calls |-> <<Call("spreadsheets.get", TRUE)>>]

getSheetData(cache, f) ==
    IF ~sheets THEN [rows |-> <<>>, title |-> cache, calls |-> <<>>]
    ELSE LET info == getSheetInfo(cache, f)
         IN IF info.threw
            THEN [rows |-> <<>>, title |-> info.title, calls |-> info.calls]
            ELSE IF f.read
                 THEN [rows |-> <<>>, title |-> info.title,
                       calls |-> info.calls \o <<Call("values.get", FALSE)>>]
                 ELSE [rows |-> ReadRange(store), title |-> info.title,
                       calls |-> info.calls \o <<Call("values.get", TRUE)>>]

\* rows.map(rowToCard).filter(c => c !== null)
ValidCards(rows) ==
    SelectSeq([i \in 1..Len(rows) |-> rowToCard(rows[i])],
              LAMBDA c : ~IsNull(c))

(***************************************************************************)
(* part_000: routes                                                        *)
(***************************************************************************)
getCardsPropagate(f) ==
    LET data == getSheetData(cachedSheetTitle, f)
    IN IF \E i \in 1..Len(data.calls) : ~data.calls[i].ok
       THEN Outcome(500, "Failed to fetch", <<>>, data.calls, data.title, store)
       ELSE Outcome(200, "", ValidCards(data.rows), data.calls, data.title,
                    store)

getCards(f) ==
    LET data == getSheetData(cachedSheetTitle, f)
    IN Outcome(200, "", ValidCards(data.rows), data.calls, data.title, store)

AtLimitGreater(count) == count > MAX_CARDS

AtLimit(count) == count >= MAX_CARDS

\* A Create that reads the rows before it validates the text
postCardsValidateLate(newCard, f) ==
    IF ~sheets
    THEN Outcome(503, "Storage unavailable", <<>>, <<>>, cachedSheetTitle,
                 store)
    ELSE
    LET info == getSheetInfo(cachedSheetTitle, f)
    IN IF info.threw
       THEN Outcome(500, "Failed to save", <<>>, info.calls, info.title, store)
       ELSE
       LET coerced == Spread(newCard,
                         [x |-> NumOr(ToNumber(Get(newCard, "x")), "0"),
                          y |-> NumOr(ToNumber(Get(newCard, "y")), "0"),
                          r |-> NumOr(ToNumber(Get(newCard, "r")), "0")])
           data == getSheetData(info.title, f)
           calls == info.calls \o data.calls
           currentCardCount == Len(ValidCards(data.rows))
       IN IF Get(newCard, "text") # "" /\ Len(Get(newCard, "text")) > MAX_TEXT
          THEN Outcome(400, "Text too long", <<>>, calls, data.title, store)
          ELSE IF AtLimit(currentCardCount)
          THEN Outcome(400, "Card limit reached", <<>>, calls, data.title,
                       store)
          ELSE IF f.write
          THEN Outcome(500, "Failed to save", <<>>,
                       calls \o <<Call("values.append", FALSE)>>, data.title,
                       store)
          ELSE Outcome(201, "", <<coerced>>,
                       calls \o <<Call("values.append", TRUE)>>, data.title,
                       AppendRow(store, cardToRow(coerced)))

postCards(newCard, f) ==
    IF ~sheets
    THEN Outcome(503, "Storage unavailable", <<>>, <<>>, cachedSheetTitle,
                 store)
    ELSE
    LET info == getSheetInfo(cachedSheetTitle, f)
    IN IF info.threw
       THEN Outcome(500, "Failed to save", <<>>, info.calls, info.title, store)
       ELSE IF Get(newCard, "text") # "" /\ Len(Get(newCard, "text")) > MAX_TEXT
       THEN Outcome(400, "Text too long", <<>>, info.calls, info.title, store)
       ELSE
       LET coerced == Spread(newCard,
                         [x |-> NumOr(ToNumber(Get(newCard, "x")), "0"),
                          y |-> NumOr(ToNumber(Get(newCard, "y")), "0"),
                          r |-> NumOr(ToNumber(Get(newCard, "r")), "0")])
           data == getSheetData(info.title, f)
           calls == info.calls \o data.calls
           currentCardCount == Len(ValidCards(data.rows))
       IN IF AtLimit(currentCardCount)
          THEN Outcome(400, "Card limit reached", <<>>, calls, data.title,
                       store)
          ELSE IF f.write
          THEN Outcome(500, "Failed to save", <<>>,
                       calls \o <<Call("values.append", FALSE)>>, data.title,
                       store)
          ELSE Outcome(201, "", <<coerced>>,
                       calls \o <<Call("values.append", TRUE)>>, data.title,
                       AppendRow(store, cardToRow(coerced)))

patchCard(id, updates, f) ==
    IF ~sheets
    THEN Outcome(503, "Storage unavailable", <<>>, <<>>, cachedSheetTitle,
                 store)
    ELSE
    LET info == getSheetInfo(cachedSheetTitle, f)
    IN IF info.threw
       THEN Outcome(500, "Failed to update", <<>>, info.calls, info.title,
                    store)
       ELSE
       LET data == getSheetData(info.title, f)
           calls == info.calls \o data.calls
           rowIndex == FindIndex(data.rows, id)
       IN IF rowIndex = -1
          THEN Outcome(404, "Not found", <<>>, calls, data.title, store)
          ELSE
          LET existingCard == rowToCard(data.rows[rowIndex + 1])
              updatedCard == IF IsNull(existingCard) THEN updates
                             ELSE Spread(existingCard, updates)
              updatedRow == cardToRow(updatedCard)
              sheetRow == rowIndex + 1
          IN IF f.write
             THEN Outcome(500, "Failed to update", <<>>,
                          calls \o <<Call("values.update", FALSE)>>,
                          data.title, store)
             ELSE Outcome(200, "", <<updatedCard>>,
                          calls \o <<Call("values.update", TRUE)>>,
                          data.title, UpdateRow(store, sheetRow, updatedRow))

deleteCardUnguarded(id, f) ==
    LET info == getSheetInfo(cachedSheetTitle, f)
    IN IF info.threw
       THEN Outcome(500, "Failed to delete", <<>>, info.calls, info.title,
                    store)
       ELSE
       LET data == getSheetData(info.title, f)
           calls == info.calls \o data.calls
           rowIndex == FindIndex(data.rows, id)
       IN IF rowIndex = -1
          THEN Outcome(404, "Not found", <<>>, calls, data.title, store)
          ELSE IF f.write
          THEN Outcome(500, "Failed to delete", <<>>,
                       calls \o <<Call("batchUpdate", FALSE)>>, data.title,
                       store)
          ELSE Outcome(200, "", <<>>,
                       calls \o <<Call("batchUpdate", TRUE)>>, data.title,
                       DeleteRow(store, rowIndex))

deleteCard(id, f) ==
    IF ~sheets
    THEN Outcome(503, "Storage unavailable", <<>>, <<>>, cachedSheetTitle,
                 store)
    ELSE
    LET info == getSheetInfo(cachedSheetTitle, f)
    IN IF info.threw
       THEN Outcome(500, "Failed to delete", <<>>, info.calls, info.title,
                    store)
       ELSE
       LET data == getSheetData(info.title, f)
           calls == info.calls \o data.calls
           rowIndex == FindIndex(data.rows, id)
       IN IF rowIndex = -1
          THEN Outcome(404, "Not found", <<>>, calls, data.title, store)
          ELSE IF f.write
          THEN Outcome(500, "Failed to delete", <<>>,
                       calls \o <<Call("batchUpdate", FALSE)>>, data.title,
                       store)
          ELSE Outcome(200, "", <<>>,
                       calls \o <<Call("batchUpdate", TRUE)>>, data.title,
                       DeleteRow(store, rowIndex))

(***************************************************************************)
(* src/app.js: helpers                                                     *)
(***************************************************************************)
\* new Date().toISOString() at the time of the request
Now == "2024-05-01T08:00:00.000Z"

\* headers.forEach((header, index) => obj[header] = row[index]), then the
\* parts array when any part column is set
AppRowObject(headers, r) ==
    LET n == RowLength(headers)
        keys == {headers[j] : j \in 1..n}
        last(k) == CHOOSE j \in 1..n :
                      headers[j] = k /\ \A i \in 1..n : headers[i] = k => i <= j
        obj == [k \in keys |-> r[last(k)]]
        ps == <<Get(obj, "part1"), Get(obj, "part2"), Get(obj, "part3")>>
    IN IF FilterParts(ps) # <<>>
       THEN [k \in keys \cup {"parts"} |->
                IF k = "parts" THEN FilterParts(ps) ELSE obj[k]]
       ELSE obj

AppGetRows(f) ==
    IF ~sheets THEN [threw |-> FALSE, data |-> <<>>, calls |-> <<>>]
    ELSE IF f.read
    THEN [threw |-> TRUE, data |-> <<>>,
          calls |-> <<Call("values.get", FALSE)>>]
    ELSE LET rows == ReadRange(store)
         IN [threw |-> FALSE,
             data |-> IF Len(rows) = 0 THEN <<>>
                      ELSE [i \in 1..(Len(rows) - 1) |->
                               AppRowObject(rows[1], rows[i + 1])],
             calls |-> <<Call("values.get", TRUE)>>]

\* /^[\=\+\-\@]/.test(text) ? "'" + text : (text || '')
AppSanitize(text) ==
    IF text # "" /\ CharAt(text, 0) \in {"=", "+", "-", "@"}
    THEN "'" \o text ELSE text

\* estimatedBytes > MAX_IMAGE_SIZE_BYTES * 1.1 with estimatedBytes =
\* totalBase64Length * 0.75, both sides scaled by 1000.  The two products
\* differ by at least 0.05 unless they are equal, and at equality the
\* double MAX_IMAGE_SIZE_BYTES * 1.1 is not below the exact product, so the
\* comparison of doubles decides as the exact one does.
AppTooLargeOrEqual(totalBase64Length) ==
    totalBase64Length * 750 >= MAX_IMAGE_SIZE_BYTES * 1100

AppTooLarge(totalBase64Length) ==
    totalBase64Length * 750 > MAX_IMAGE_SIZE_BYTES * 1100

\* const row = [card.id, card.id, text, card.mood, ...]
AppRow(c, parts) ==
    LET has(k) == k \in DOMAIN c
        defined == {6, 7, 8, 9, 13}
                   \cup (IF has("id") THEN {1, 2} ELSE {})
                   \cup {3}
                   \cup (IF has("mood") THEN {4} ELSE {})
                   \cup (IF has("style") THEN {5} ELSE {})
                   \cup (IF has("x") THEN {10} ELSE {})
                   \cup (IF has("y") THEN {11} ELSE {})
                   \cup (IF has("r") THEN {12} ELSE {})
        part(i) == IF i <= Len(parts) THEN parts[i] ELSE ""
    IN [i \in defined |->
           CASE i = 1  -> c.id
             [] i = 2  -> c.id
             [] i = 3  -> AppSanitize(Get(c, "text"))
             [] i = 4  -> c.mood
             [] i = 5  -> c.style
             [] i = 6  -> StrOr(Get(c, "header"), "")
             [] i = 7  -> part(1)
             [] i = 8  -> part(2)
             [] i = 9  -> part(3)
             [] i = 10 -> c.x
             [] i = 11 -> c.y
             [] i = 12 -> c.r
             [] i = 13 -> Now]

(***************************************************************************)
(* src/app.js: routes                                                      *)
(***************************************************************************)
AppGetCards(f) ==
    LET got == AppGetRows(f)
    IN IF got.threw
       THEN Outcome(500, "Failed to fetch cards", <<>>, got.calls,
                    cachedSheetTitle, store)
       ELSE Outcome(200, "", got.data, got.calls, cachedSheetTitle, store)

AppPostCards(c, f) ==
    LET got == AppGetRows(f)
        parts == IF "parts" \in DOMAIN c THEN c.parts ELSE <<>>
        totalBase64Length == Len(Join(parts))
    IN IF got.threw
       THEN Outcome(500, "Failed to add card", <<>>, got.calls,
                    cachedSheetTitle, store)
       ELSE IF AtLimit(Len(got.data))
       THEN Outcome(400, "Card limit reached", <<>>, got.calls,
                    cachedSheetTitle, store)
       ELSE IF AppTooLarge(totalBase64Length)
       THEN Outcome(400, "Image too large", <<>>, got.calls,
                    cachedSheetTitle, store)
       ELSE IF ~sheets
       THEN Outcome(500, "Failed to add card", <<>>, got.calls,
                    cachedSheetTitle, store)
       ELSE IF f.write
       THEN Outcome(500, "Failed to add card", <<>>,
                    got.calls \o <<Call("values.append", FALSE)>>,
                    cachedSheetTitle, store)
       ELSE Outcome(201, "", <<c>>,
                    got.calls \o <<Call("values.append", TRUE)>>,
                    cachedSheetTitle, AppendRow(store, AppRow(c, parts)))

AppDeleteCard(id, f) ==
    IF ~sheets
    THEN Outcome(500, "Failed to delete card", <<>>, <<>>, cachedSheetTitle,
                 store)
    ELSE IF f.read
    THEN Outcome(500, "Failed to delete card", <<>>,
                 <<Call("values.get", FALSE)>>, cachedSheetTitle, store)
    ELSE
    LET rows == ReadRange(store)
        rowIndex == FindIndex(rows, id)
        read == <<Call("values.get", TRUE)>>
    IN IF rowIndex = -1
       THEN Outcome(404, "Card not found", <<>>, read, cachedSheetTitle, store)
       ELSE IF f.meta
       THEN Outcome(500, "Failed to delete card", <<>>,
                    read \o <<Call("spreadsheets.get", FALSE)>>,
                    cachedSheetTitle, store)
       ELSE IF f.write
       THEN Outcome(500, "Failed to delete card", <<>>,
                    read \o <<Call("spreadsheets.get", TRUE),
                              Call("batchUpdate", FALSE)>>,
                    cachedSheetTitle, store)
       ELSE Outcome(200, "", <<>>,
                    read \o <<Call("spreadsheets.get", TRUE),
                              Call("batchUpdate", TRUE)>>,
                    cachedSheetTitle, DeleteRow(store, rowIndex))

AppPatchCard(id, body, f) ==
    IF ~sheets
    THEN Outcome(500, "Failed to update card", <<>>, <<>>, cachedSheetTitle,
                 store)
    ELSE IF f.read
    THEN Outcome(500, "Failed to update card", <<>>,
                 <<Call("values.get", FALSE)>>, cachedSheetTitle, store)
    ELSE
    LET rows == ReadRange(store)
        rowIndex == FindIndex(rows, id)
        read == <<Call("values.get", TRUE)>>
        sheetRow == rowIndex + 1
        cells == [j \in {9 : k \in {"x"} \cap DOMAIN body}
                        \cup {10 : k \in {"y"} \cap DOMAIN body}
                        \cup {11 : k \in {"r"} \cap DOMAIN body} |->
                     CASE j = 9 -> body.x [] j = 10 -> body.y
                       [] j = 11 -> body.r]
    IN IF rowIndex = -1
       THEN Outcome(404, "Card not found", <<>>, read, cachedSheetTitle, store)
       ELSE IF f.write
       THEN Outcome(500, "Failed to update card", <<>>,
                    read \o <<Call("values.update", FALSE)>>,
                    cachedSheetTitle, store)
       ELSE Outcome(200, "", <<>>,
                    read \o <<Call("values.update", TRUE)>>,
                    cachedSheetTitle, UpdateRow(store, sheetRow, cells))

(***************************************************************************)
(* Requests the clients send                                               *)
(***************************************************************************)
\* The preamble of a data URL, dataUrl.slice(0, idx + 7)
DataUrlHeader == "data:image/jpeg;base64,"

\* The longest base64 body the size check of src/app.js lets through
BoundaryLength == (MAX_IMAGE_SIZE_BYTES * 1100) \div 750

\* saveCard's cardData for a text, a mood, a style and an image body
CardData(id, text, mood, style, b64Body) ==
    [id |-> id, text |-> text, mood |-> mood, style |-> style,
     header |-> IF b64Body = "" THEN "" ELSE DataUrlHeader,
     parts |-> IF b64Body = "" THEN <<>> ELSE splitBase64(b64Body, 3),
     x |-> "12", y |-> "34", r |-> "-3", createdAt |-> Now]

NewCards ==
    {CardData("a", "=1+1", "3", "polaroid", ""),
     CardData("b", "", "5", "", "QUJD"),
     CardData("id", "yo", "1", "tape", "Q"),
     CardData("a", Rep("x", MAX_TEXT + 1), "2", "polaroid", ""),
     CardData("b", "big", "4", "polaroid", Rep("A", BoundaryLength)),
     CardData("a", "huge", "4", "polaroid", Rep("A", BoundaryLength + 1))}

\* The ids of the :id route parameter
RouteIds == {"a", "b", "id", "zz"}

\* dragEnd's body { x, y, r }
UpdateBodies == {[x |-> "10", y |-> "20", r |-> "0"]}

(***************************************************************************)
(* State machine of the server process: one request at a time              *)
(***************************************************************************)
NoResponse ==
    [op |-> "", id |-> "", req |-> <<>>, status |-> 0, error |-> "",
     body |-> <<>>, calls |-> <<>>, chain |-> 0]

\* History: how much of the run "Delete, Update position, List", each
\* answered with success and directly following the other, the response
\* with this op and status completes
Chain(op, status) ==
    IF op = "DELETE" /\ status = 200 THEN 1
    ELSE IF op = "PATCH" /\ status = 200 /\ res.chain = 1 THEN 2
    ELSE IF op = "GET" /\ status = 200 /\ res.chain = 2 THEN 3
    ELSE 0

IdlePure ==
    /\ str = ""
    /\ arr = <<>>
    /\ card = NullCard
    /\ row = <<>>
    /\ back = <<>>

\* No image is being processed
NoImage ==
    [pc |-> "idle", sizes |-> <<>>, targetMaxBytes |-> 0, quality |-> 0,
     blob |-> 0, tried |-> <<>>, result |-> "", sizeBytes |-> 0]

IdleImage == img = NoImage

\* The requests the server has in flight at once
NumRequests == 2

Procs == 1..NumRequests

\* A request in flight: the await its handler stands at (pc), the handler's
\* locals and its answer.  found, deleted and fetched are history: the
\* 1-indexed row at which the row the handler's scan found stands now (0
\* once it is removed), whether a Delete removed a row since that scan, and
\* whether the handler's getSheetInfo issued spreadsheets.get
NoRequest ==
    [pc |-> "idle", op |-> "", id |-> "", req |-> <<>>, count |-> 0,
     rowIndex |-> -1, newRow |-> <<>>, status |-> 0, found |-> 0,
     deleted |-> FALSE, fetched |-> FALSE]

IdleRace == procs = [p \in Procs |-> NoRequest]

\* The page as the script leaves it once loaded: let currentMood = 3,
\* currentStyle = 'polaroid', currentBase64Parts = null, an empty input, no
\* card element on the wall.  prints counts the cards printed so far
NoClient ==
    [text |-> "", currentMood |-> "3", currentStyle |-> "polaroid",
     currentBase64Parts |-> NullCard, cards |-> <<>>, prints |-> 0]

IdleClient == client = NoClient

Init ==
    /\ server \in {"app.js", "part_000"}
    /\ sheets \in BOOLEAN
    /\ cachedSheetTitle = ""
    /\ store = <<AsCells(COLUMNS)>>
    /\ res = NoResponse
    /\ IdlePure
    /\ IdleImage
    /\ IdleRace
    /\ IdleClient

\* The handler's outcome becomes the response and the new sheet, a sheet
\* of at most maxRows rows
RespondUpTo(maxRows, op, id, req, out) ==
    /\ res.op = ""
    /\ Len(out.store) <= maxRows
    /\ res' = [op |-> op, id |-> id, req |-> req, status |-> out.status,
               error |-> out.error, body |-> out.body, calls |-> out.calls,
               chain |-> Chain(op, out.status)]
    /\ store' = out.store
    /\ cachedSheetTitle' = out.title
    /\ UNCHANGED <<server, sheets, splitVars, mapperVars, imageVars,
                   raceVars, clientVars>>

Respond(op, id, req, out) == RespondUpTo(MaxRows, op, id, req, out)

GetCards ==
    /\ server = "part_000"
    /\ \E f \in Faults : Respond("GET", "", <<>>, getCards(f))

PostCards ==
    /\ server = "part_000"
    /\ \E c \in NewCards, f \in Faults :
          Respond("POST", c.id, c, postCards(c, f))

PatchCard ==
    /\ server = "part_000"
    /\ \E id \in RouteIds, u \in UpdateBodies, f \in Faults :
          Respond("PATCH", id, u, patchCard(id, u, f))

DeleteCard ==
    /\ server = "part_000"
    /\ \E id \in RouteIds, f \in Faults :
          Respond("DELETE", id, <<>>, deleteCard(id, f))

AppGet ==
    /\ server = "app.js"
    /\ \E f \in Faults : Respond("GET", "", <<>>, AppGetCards(f))

AppPost ==
    /\ server = "app.js"
    /\ \E c \in NewCards, f \in Faults :
          Respond("POST", c.id, c, AppPostCards(c, f))

AppPatch ==
    /\ server = "app.js"
    /\ \E id \in RouteIds, u \in UpdateBodies, f \in Faults :
          Respond("PATCH", id, u, AppPatchCard(id, u, f))

AppDelete ==
    /\ server = "app.js"
    /\ \E id \in RouteIds, f \in Faults :
          Respond("DELETE", id, <<>>, AppDeleteCard(id, f))

\* The client's fetch resolves: the response has left the server, which
\* waits for the next request
Deliver ==
    /\ res.op # ""
    /\ res' = [NoResponse EXCEPT !.chain = res.chain]
    /\ UNCHANGED <<server, sheets, cachedSheetTitle, store, splitVars,
                   mapperVars, imageVars, raceVars, clientVars>>

Next ==
    \/ Deliver
    \/ GetCards
    \/ PostCards
    \/ PatchCard
    \/ DeleteCard
    \/ AppGet
    \/ AppPost
    \/ AppPatch
    \/ AppDelete

Spec == Init /\ [][Next]_vars

(***************************************************************************)
(* Update with any body: the PATCH route takes whatever JSON object the    *)
(* caller sends, not only dragEnd's { x, y, r }                            *)
(***************************************************************************)
\* Every store call of the request succeeds
NoFault == [meta |-> FALSE, read |-> FALSE, write |-> FALSE]

\* The cards on the wall before the updates
SeedCards ==
    {CardData("a", "hi", "3", "polaroid", ""),
     CardData("b", "", "5", "", "QUJD")}

\* req.body of PATCH /api/cards/:id
AnyUpdateBodies ==
    UpdateBodies
    \cup {[id |-> "zz"], [createdAt |-> "2000-01-01T00:00:00.000Z"]}

\* The ids of the cards on the wall
SeedIds == {c.id : c \in SeedCards}

SeedCard ==
    /\ server = "part_000"
    /\ \E c \in SeedCards : Respond("POST", c.id, c, postCards(c, NoFault))

AppSeedCard ==
    /\ server = "app.js"
    /\ \E c \in SeedCards : Respond("POST", c.id, c, AppPostCards(c, NoFault))

PatchAny ==
    /\ server = "part_000"
    /\ \E id \in SeedIds, u \in AnyUpdateBodies :
          Respond("PATCH", id, u, patchCard(id, u, NoFault))

AppPatchAny ==
    /\ server = "app.js"
    /\ \E id \in SeedIds, u \in AnyUpdateBodies :
          Respond("PATCH", id, u, AppPatchCard(id, u, NoFault))

NextUpdate ==
    \/ Deliver
    \/ SeedCard
    \/ AppSeedCard
    \/ PatchAny
    \/ AppPatchAny

SpecUpdate == Init /\ [][NextUpdate]_vars

(***************************************************************************)
(* Creates and Lists only, one request at a time, any store call failing:  *)
(* the sheet grows to the header row, MAX_CARDS cards and two rows more    *)
(***************************************************************************)
\* The rows of the sheet the Creates fill
MaxCreateRows == 5

Create ==
    /\ server = "part_000"
    /\ \E c \in NewCards, f \in Faults :
          RespondUpTo(MaxCreateRows, "POST", c.id, c, postCards(c, f))

AppCreate ==
    /\ server = "app.js"
    /\ \E c \in NewCards, f \in Faults :
          RespondUpTo(MaxCreateRows, "POST", c.id, c, AppPostCards(c, f))

List ==
    /\ server = "part_000"
    /\ \E f \in Faults :
          RespondUpTo(MaxCreateRows, "GET", "", <<>>, getCards(f))

AppList ==
    /\ server = "app.js"
    /\ \E f \in Faults :
          RespondUpTo(MaxCreateRows, "GET", "", <<>>, AppGetCards(f))

NextCreate ==
    \/ Deliver
    \/ Create
    \/ AppCreate
    \/ List
    \/ AppList

SpecCreate == Init /\ [][NextCreate]_vars

(***************************************************************************)
(* Requests in flight together.  A handler runs without interruption up to *)
(* an await of a store call; the handlers of other requests run while the  *)
(* call is pending.  The steps of a request: Accept (up to the first       *)
(* await), FetchMeta (spreadsheets.get resolves), Scan (values.get         *)
(* resolves, the handler runs up to the await of its write), WriteBack     *)
(* (the write takes effect and the handler answers).  The routes are       *)
(* Create, Update position and Delete of part_000 and Create of            *)
(* src/app.js; every store call succeeds.  NumRequests requests arrive, at *)
(* a sheet that earlier Creates filled and a process that may have served  *)
(* them or have started since.                                             *)
(***************************************************************************)
\* The rows the sheet can reach: the header row, MAX_CARDS - 1 cards and
\* one more row for every request in flight
MaxRaceRows == MAX_CARDS + NumRequests

RaceRequests ==
    {[op |-> "POST", id |-> c.id, req |-> c] : c \in SeedCards}
    \cup {[op |-> "PATCH", id |-> id, req |-> u] :
             id \in SeedIds, u \in UpdateBodies}
    \cup {[op |-> "DELETE", id |-> id, req |-> <<>>] : id \in SeedIds}

\* newCard.x = Number(newCard.x) || 0, and so for y and r
Coerce(newCard) ==
    Spread(newCard, [x |-> NumOr(ToNumber(Get(newCard, "x")), "0"),
                     y |-> NumOr(ToNumber(Get(newCard, "y")), "0"),
                     r |-> NumOr(ToNumber(Get(newCard, "r")), "0")])

\* const sheetRow = rowIndex + 1
SheetRow(rowIndex) == rowIndex + 1

\* The handler has its sheet title: part_000's Create validates the body,
\* then every route awaits values.get
AfterSheetInfo(r) ==
    IF r.op = "POST" /\ Get(r.req, "text") # ""
       /\ Len(Get(r.req, "text")) > MAX_TEXT
    THEN [r EXCEPT !.pc = "done", !.status = 400]
    ELSE [r EXCEPT !.pc = "read"]

\* The handler from the arrival of the request to its first await
Accepted(q) ==
    LET r == [NoRequest EXCEPT !.op = q.op, !.id = q.id, !.req = q.req]
    IN IF server = "app.js" THEN [r EXCEPT !.pc = "read"]
       ELSE IF ~sheets THEN [r EXCEPT !.pc = "done", !.status = 503]
       ELSE IF cachedSheetTitle # "" THEN AfterSheetInfo(r)
       ELSE [r EXCEPT !.pc = "meta", !.fetched = TRUE]

\* The handler from the rows values.get returned to the await of its write
Scanned(r, rows) ==
    IF r.op = "POST"
    THEN IF server = "app.js"
         THEN LET count == IF Len(rows) = 0 THEN 0 ELSE Len(rows) - 1
                  parts == IF "parts" \in DOMAIN r.req THEN r.req.parts
                           ELSE <<>>
              IN IF AtLimit(count) \/ AppTooLarge(Len(Join(parts)))
                 THEN [r EXCEPT !.pc = "done", !.status = 400,
                                !.count = count]
                 ELSE [r EXCEPT !.pc = "write", !.count = count,
                                !.newRow = AppRow(r.req, parts)]
         ELSE LET count == Len(ValidCards(rows))
              IN IF AtLimit(count)
                 THEN [r EXCEPT !.pc = "done", !.status = 400,
                                !.count = count]
                 ELSE [r EXCEPT !.pc = "write", !.count = count,
                                !.newRow = cardToRow(Coerce(r.req))]
    ELSE LET rowIndex == FindIndex(rows, r.id)
         IN IF rowIndex = -1 THEN [r EXCEPT !.pc = "done", !.status = 404]
            ELSE IF r.op = "DELETE"
            THEN [r EXCEPT !.pc = "write", !.rowIndex = rowIndex,
                           !.found = rowIndex + 1]
            ELSE LET existingCard == rowToCard(rows[rowIndex + 1])
                     updatedCard == IF IsNull(existingCard) THEN r.req
                                    ELSE Spread(existingCard, r.req)
                 IN [r EXCEPT !.pc = "write", !.rowIndex = rowIndex,
                              !.found = rowIndex + 1,
                              !.newRow = cardToRow(updatedCard)]

WrittenRescan(r, s) ==
    LET rowIndex == FindIndex(ReadRange(s), r.id)
    IN IF r.op = "POST" THEN AppendRow(s, r.newRow)
       ELSE IF rowIndex = -1 THEN s
       ELSE IF r.op = "PATCH" THEN UpdateRow(s, SheetRow(rowIndex), r.newRow)
       ELSE DeleteRow(s, rowIndex)

\* The sheet after the write the handler awaits
Written(r, s) ==
    IF r.op = "POST" THEN AppendRow(s, r.newRow)
    ELSE IF r.op = "PATCH" THEN UpdateRow(s, SheetRow(r.rowIndex), r.newRow)
    ELSE DeleteRow(s, r.rowIndex)

\* History: the request r after the row at the 1-indexed place removed
\* left the sheet
AfterRemoval(r, removed) ==
    IF r.pc # "write" \/ r.op = "POST" THEN r
    ELSE [r EXCEPT !.deleted = TRUE,
                   !.found = IF @ = 0 \/ @ = removed THEN 0
                             ELSE IF removed < @ THEN @ - 1 ELSE @]

\* The row the running server's Create appends for the card c
CreatedRow(c) ==
    IF server = "app.js" THEN AsCells(AppRow(c, c.parts))
    ELSE AsCells(cardToRow(Coerce(c)))

\* The sheets that Creates of distinct cards leave, one after the other
RaceSheets ==
    {<<AsCells(COLUMNS)>>}
    \cup {<<AsCells(COLUMNS), CreatedRow(c)>> : c \in SeedCards}
    \cup {<<AsCells(COLUMNS), CreatedRow(c), CreatedRow(d)>> :
             <<c, d>> \in {cd \in SeedCards \X SeedCards : cd[1] # cd[2]}}

InitRace ==
    /\ server \in {"app.js", "part_000"}
    /\ sheets = TRUE
    /\ cachedSheetTitle \in IF server = "app.js" THEN {""}
                            ELSE {"", SheetTitle}
    /\ store \in RaceSheets
    /\ res = NoResponse
    /\ IdlePure
    /\ IdleImage
    /\ IdleRace
    /\ IdleClient

Accept(p) ==
    /\ procs[p].pc = "idle"
    /\ \E q \in RaceRequests :
          /\ server = "app.js" => q.op = "POST"
          /\ procs' = [procs EXCEPT ![p] = Accepted(q)]
    /\ UNCHANGED <<serverVars, splitVars, mapperVars, imageVars, clientVars>>

FetchMeta(p) ==
    /\ procs[p].pc = "meta"
    /\ cachedSheetTitle' = SheetTitle
    /\ procs' = [procs EXCEPT ![p] = AfterSheetInfo(@)]
    /\ UNCHANGED <<server, sheets, store, res, splitVars, mapperVars,
                   imageVars, clientVars>>

Scan(p) ==
    /\ procs[p].pc = "read"
    /\ procs' = [procs EXCEPT ![p] = Scanned(@, ReadRange(store))]
    /\ UNCHANGED <<serverVars, splitVars, mapperVars, imageVars, clientVars>>

WriteBack(p) ==
    /\ procs[p].pc = "write"
    /\ LET r == procs[p]
           removes == r.op = "DELETE" /\ r.rowIndex < Len(store)
       IN /\ store' = Written(r, store)
          /\ Len(store') <= MaxRaceRows
          /\ procs' = [q \in Procs |->
                          IF q = p
                          THEN [r EXCEPT !.pc = "done",
                                         !.status = IF r.op = "POST" THEN 201
                                                    ELSE 200]
                          ELSE IF removes
                          THEN AfterRemoval(procs[q], r.rowIndex + 1)
                          ELSE procs[q]]
    /\ UNCHANGED <<server, sheets, cachedSheetTitle, res, splitVars,
                   mapperVars, imageVars, clientVars>>

NextRace ==
    \E p \in Procs :
       \/ Accept(p)
       \/ FetchMeta(p)
       \/ Scan(p)
       \/ WriteBack(p)

SpecRace == InitRace /\ [][NextRace]_vars

(***************************************************************************)
(* The chunk splitter on its own: every body up to MaxBodyLen characters   *)
(***************************************************************************)
\* Characters of the base64 alphabet the bodies are drawn from
Alphabet == {"Q", "+"}

RECURSIVE Bodies(_)
Bodies(n) ==
    IF n = 0 THEN {""}
    ELSE LET S == Bodies(n - 1) IN S \cup {b \o c : b \in S, c \in Alphabet}

IdleServer ==
    /\ server = ""
    /\ sheets = FALSE
    /\ cachedSheetTitle = ""
    /\ store = <<>>
    /\ res = NoResponse

InitSplit ==
    /\ str \in Bodies(MaxBodyLen)
    /\ arr = <<>>
    /\ card = NullCard
    /\ row = <<>>
    /\ back = <<>>
    /\ IdleServer
    /\ IdleImage
    /\ IdleRace
    /\ IdleClient

\* processImageFileSpecV2: const parts = splitBase64(b64Body, 3)
Split ==
    /\ arr = <<>>
    /\ arr' = splitBase64(str, 3)
    /\ UNCHANGED <<str, serverVars, mapperVars, imageVars, raceVars,
                   clientVars>>

NextSplit == Split

SpecSplit == InitSplit /\ [][NextSplit]_vars

(***************************************************************************)
(* An image on its way through the store: the fragments of every body, as  *)
(* saveCard sends them, cardToRow lays them out, rowToCard reads them back *)
(* and renderCard joins them                                               *)
(***************************************************************************)
\* renderCard: (data.header || '') + data.parts.join('')
fullSrc(data) == Get(data, "header") \o Join(data.parts)

\* saveCard: cardData with header: parts.header, parts: parts.parts
SaveCard ==
    /\ arr # <<>>
    /\ card = NullCard
    /\ card' = [id |-> "a", text |-> "hi", mood |-> "3", style |-> "polaroid",
                header |-> DataUrlHeader, parts |-> arr, x |-> "12",
                y |-> "34", r |-> "-3", createdAt |-> Now]
    /\ UNCHANGED <<row, back, serverVars, splitVars, imageVars, raceVars,
                   clientVars>>

\* Create: const row = cardToRow(newCard)
StoreCard ==
    /\ card # NullCard
    /\ row = <<>>
    /\ row' = cardToRow(card)
    /\ UNCHANGED <<card, back, serverVars, splitVars, imageVars, raceVars,
                   clientVars>>

\* List: rows.map(rowToCard)
LoadCard ==
    /\ row # <<>>
    /\ back = <<>>
    /\ back' = rowToCard(AsCells(row))
    /\ UNCHANGED <<card, row, serverVars, splitVars, imageVars, raceVars,
                   clientVars>>

NextStored == Split \/ SaveCard \/ StoreCard \/ LoadCard

SpecStored == InitSplit /\ [][NextStored]_vars

(***************************************************************************)
(* The card record mapper on its own: cards of the data model              *)
(***************************************************************************)
MapperCards ==
    {[id |-> id, text |-> text, mood |-> mood, style |-> style,
      header |-> IF parts = <<>> THEN "" ELSE DataUrlHeader,
      parts |-> parts, x |-> x, y |-> "34", r |-> r, createdAt |-> createdAt] :
        id \in {"a", "id", "ID"}, text \in {"", "hi"}, mood \in {"1", "5"},
        style \in {"", "polaroid", "tape"},
        parts \in {<<>>, splitBase64("Q", 3), splitBase64("QUJD", 3),
                   <<"Q", "", "U">>},
        x \in {"0", "12"}, r \in {"-3", "0"}, createdAt \in {"", Now}}

InitMapper ==
    /\ card \in MapperCards
    /\ row = <<>>
    /\ back = <<>>
    /\ str = ""
    /\ arr = <<>>
    /\ IdleServer
    /\ IdleImage
    /\ IdleRace
    /\ IdleClient

ToRow ==
    /\ row = <<>>
    /\ row' = cardToRow(card)
    /\ UNCHANGED <<card, back, serverVars, splitVars, imageVars, raceVars,
                   clientVars>>

FromRow ==
    /\ row # <<>>
    /\ back = <<>>
    /\ back' = rowToCard(AsCells(row))
    /\ UNCHANGED <<card, row, serverVars, splitVars, imageVars, raceVars,
                   clientVars>>

NextMapper == ToRow \/ FromRow

SpecMapper == InitMapper /\ [][NextMapper]_vars

(***************************************************************************)
(* The image compressor on its own (client, processImageFileSpecV2): every *)
(* assignment of encoded sizes to the quality settings and every budget.   *)
(* A quality is written in tenths: 9 is 0.9.  The doubles the loop         *)
(* computes (0.9, 0.8, 0.7000000000000001, 0.6000000000000001,             *)
(* 0.5000000000000001, 0.40000000000000013) compare with 0.5 as their      *)
(* tenths compare with 5.  The encoded size is whatever the assignment     *)
(* gives for the quality, for the dimensions the function scaled to.       *)
(***************************************************************************)
\* The largest encoded size and budget of the model, in bytes
MaxSize == 3

\* let quality = 0.9
InitialQuality == 9

\* the loop's quality >= 0.5
MinQuality == 5

\* The qualities toBlob can be asked for
Qualities == (MinQuality - 1)..InitialQuality

\* A loop that makes its last encoding at quality 0.5
LoopContinuesStrict(size, quality, targetMaxBytes) ==
    size > targetMaxBytes /\ quality > MinQuality

\* while (blob.size > targetMaxBytes && quality >= 0.5)
LoopContinues(size, quality, targetMaxBytes) ==
    size > targetMaxBytes /\ quality >= MinQuality

SizeExceededOrEqual(size, targetMaxBytes) == size >= targetMaxBytes

\* if (blob.size > targetMaxBytes) throw new Error(...)
SizeExceeded(size, targetMaxBytes) == size > targetMaxBytes

\* compressImage(img, w, h, q): the blob's size
compressImage(sizes, q) == sizes[q]

InitImage ==
    /\ \E sizes \in [Qualities -> 1..MaxSize], b \in 1..MaxSize :
          img = [NoImage EXCEPT !.sizes = sizes, !.targetMaxBytes = b]
    /\ IdlePure
    /\ IdleServer
    /\ IdleRace
    /\ IdleClient

\* let quality = 0.9; let blob = await compressImage(img, w, h, quality)
FirstEncoding ==
    /\ img.pc = "idle"
    /\ LET size == compressImage(img.sizes, InitialQuality)
       IN img' = [img EXCEPT !.pc = "loop", !.quality = InitialQuality,
                             !.blob = size,
                             !.tried = <<[quality |-> InitialQuality,
                                          size |-> size]>>]
    /\ UNCHANGED <<serverVars, splitVars, mapperVars, raceVars, clientVars>>

\* One turn of the loop: quality -= 0.1 and the next encoding
NextEncoding ==
    /\ img.pc = "loop"
    /\ LoopContinues(img.blob, img.quality, img.targetMaxBytes)
    /\ LET q == img.quality - 1
           size == compressImage(img.sizes, q)
       IN img' = [img EXCEPT !.quality = q, !.blob = size,
                             !.tried = Append(@, [quality |-> q,
                                                  size |-> size])]
    /\ UNCHANGED <<serverVars, splitVars, mapperVars, raceVars, clientVars>>

\* The loop is left: the throw, or the return with sizeBytes: blob.size
Settle ==
    /\ img.pc = "loop"
    /\ ~LoopContinues(img.blob, img.quality, img.targetMaxBytes)
    /\ img' = IF SizeExceeded(img.blob, img.targetMaxBytes)
              THEN [img EXCEPT !.pc = "done", !.result = "SizeExceeded"]
              ELSE [img EXCEPT !.pc = "done", !.result = "ok",
                               !.sizeBytes = img.blob]
    /\ UNCHANGED <<serverVars, splitVars, mapperVars, raceVars, clientVars>>

NextImage == FirstEncoding \/ NextEncoding \/ Settle

SpecImage == InitImage /\ [][NextImage]_vars

\* The browser resolves every toBlob promise, and the event loop runs the
\* continuation of a resolved await: a step of the function that can be
\* taken is taken
SpecImageLive == SpecImage /\ WF_vars(NextImage)

(***************************************************************************)
(* The page (client, part_001) in front of part_000: the user types,       *)
(* picks a mood and a style, uploads an image, clicks Print and clicks     *)
(* the delete button of a card.  A Print click puts the card element on    *)
(* the wall and starts a timer of 2500 ms; the user's other events are     *)
(* handled while it runs, and its callback saves the card.  The timers     *)
(* have the same delay, so their callbacks run in the order of the clicks. *)
(* A fetch is one step: the server handles the request and the response    *)
(* is back.                                                                *)
(***************************************************************************)
\* The cards the user prints
MaxPrints == 3

\* btn.dataset.mood of the mood buttons the user clicks
Moods == {"1", "5"}

\* The options of the style select
Styles == {"polaroid", "tape"}

\* processImageFileSpecV2's result for an image whose encoding has this
\* base64 body
Processed(b64Body) ==
    [header |-> DataUrlHeader, parts |-> splitBase64(b64Body, 3)]

\* 'card_' + Date.now(), the clock read at the n-th Print click
cardId(n) == "card_" \o ToString(n)

\* The image source a Print click puts on the card element, "" for a
\* preset picture
PrintedSrc(parts) ==
    IF IsNull(parts) THEN "" ELSE parts.header \o Join(parts.parts)

\* saveCard's cardData
saveCard(cardEl, text, parts) ==
    [id |-> cardEl.cardId, text |-> text, mood |-> client.currentMood,
     style |-> client.currentStyle,
     header |-> IF IsNull(parts) THEN "" ELSE parts.header,
     parts |-> IF IsNull(parts) THEN <<>> ELSE parts.parts,
     x |-> "12", y |-> "34", r |-> "-3", createdAt |-> Now]

\* The response the page's fetch resolves with
Received(op, id, req, out) ==
    [op |-> op, id |-> id, req |-> req, status |-> out.status,
     error |-> out.error, body |-> out.body, calls |-> out.calls,
     chain |-> 0]

\* cardEl.remove() of the k-th card element of the wall
Removed(cards, k) == SubSeq(cards, 1, k - 1) \o SubSeq(cards, k + 1, Len(cards))

\* The first card element whose timer is pending, 0 when none
FirstPrinting ==
    LET pending == {k \in 1..Len(client.cards) : client.cards[k].printing}
    IN IF pending = {} THEN 0
       ELSE CHOOSE k \in pending : \A j \in pending : k <= j

InitClient ==
    /\ server = "part_000"
    /\ sheets = TRUE
    /\ cachedSheetTitle = ""
    /\ store = <<AsCells(COLUMNS)>>
    /\ res = NoResponse
    /\ IdlePure
    /\ IdleImage
    /\ IdleRace
    /\ IdleClient

\* The user types into the hidden input
Type ==
    /\ client.text = ""
    /\ client' = [client EXCEPT !.text = "hi"]
    /\ UNCHANGED <<serverVars, splitVars, mapperVars, imageVars, raceVars>>

MoodClick ==
    /\ \E m \in Moods \ {client.currentMood} :
          client' = [client EXCEPT !.currentMood = m]
    /\ UNCHANGED <<serverVars, splitVars, mapperVars, imageVars, raceVars>>

StyleChange ==
    /\ \E v \in Styles \ {client.currentStyle} :
          client' = [client EXCEPT !.currentStyle = v]
    /\ UNCHANGED <<serverVars, splitVars, mapperVars, imageVars, raceVars>>

\* The change handler of the file input, from the processed image on
Upload ==
    /\ IsNull(client.currentBase64Parts)
    /\ client' = [client EXCEPT !.currentBase64Parts = Processed("QUJD")]
    /\ UNCHANGED <<serverVars, splitVars, mapperVars, imageVars, raceVars>>

\* The click handler of the Print button up to setTimeout
PrintClick ==
    /\ client.prints < MaxPrints
    /\ Len(client.cards) < MAX_CARDS
    /\ client.text # "" \/ ~IsNull(client.currentBase64Parts)
    /\ LET cardEl == [cardId |-> cardId(client.prints + 1),
                      text |-> client.text,
                      style |-> client.currentStyle,
                      mood |-> client.currentMood,
                      src |-> PrintedSrc(client.currentBase64Parts),
                      printing |-> TRUE]
       IN client' = [client EXCEPT !.prints = @ + 1,
                                   !.cards = Append(@, cardEl)]
    /\ UNCHANGED <<serverVars, splitVars, mapperVars, imageVars, raceVars>>

\* The callback of the timer: the card leaves the printer, saveCard POSTs
\* it, and the page's image, input and mood are reset
PrintDone ==
    /\ FirstPrinting # 0
    /\ LET k == FirstPrinting
           cardEl == client.cards[k]
           cardData == saveCard(cardEl, cardEl.text,
                                client.currentBase64Parts)
           out == postCards(cardData, NoFault)
       IN /\ res' = Received("POST", cardData.id, cardData, out)
          /\ store' = out.store
          /\ cachedSheetTitle' = out.title
          /\ client' = [client EXCEPT !.cards[k].printing = FALSE,
                                      !.currentBase64Parts = NullCard,
                                      !.text = "",
                                      !.currentMood = "3"]
    /\ UNCHANGED <<server, sheets, splitVars, mapperVars, imageVars,
                   raceVars>>

\* The click handler of a card's delete button, the user confirming
DeleteClick ==
    /\ \E k \in 1..Len(client.cards), f \in Faults :
          /\ ~client.cards[k].printing
          /\ LET id == client.cards[k].cardId
                 out == deleteCard(id, f)
             IN /\ res' = Received("DELETE", id, <<>>, out)
                /\ store' = out.store
                /\ cachedSheetTitle' = out.title
                /\ client' = [client EXCEPT !.cards = Removed(@, k)]
    /\ UNCHANGED <<server, sheets, splitVars, mapperVars, imageVars,
                   raceVars>>

\* Printing: every event of the typewriter, the cards staying on the wall
NextPrint ==
    \/ Type
    \/ MoodClick
    \/ StyleChange
    \/ Upload
    \/ PrintClick
    \/ PrintDone

SpecPrint == InitClient /\ [][NextPrint]_vars

\* Deleting: cards of the default mood and style, printed and deleted
NextWall ==
    \/ Type
    \/ PrintClick
    \/ PrintDone
    \/ DeleteClick

SpecWall == InitClient /\ [][NextWall]_vars

(***************************************************************************)
(* Vocabulary of the properties                                            *)
(***************************************************************************)
\* The rows of the sheet that hold a card for part_000: not blank and not a
\* header row
IsCardRow(r) == RowLength(r) # 0 /\ r[1] \notin {"id", "ID"}

CardRows(s) == SelectSeq(s, IsCardRow)

\* The number of cards the sheet holds for the running server: part_000
\* counts the card rows, src/app.js every row below the header row
CardCount(s) ==
    IF server = "part_000" THEN Len(CardRows(s))
    ELSE IF Len(s) = 0 THEN 0 ELSE Len(s) - 1

\* The 1-indexed row of the first row whose id cell is id, 0 when none
RowOf(s, id) == FindIndex(ReadRange(s), id) + 1

\* id is the id of a card the sheet holds
HoldsCard(s, id) == \E i \in 1..Len(s) : IsCardRow(s[i]) /\ s[i][1] = id

\* Every store call the request issued succeeded, and the client is set up
CallsOk(r) == sheets /\ \A i \in 1..Len(r.calls) : r.calls[i].ok

Issued(r, name) == \E i \in 1..Len(r.calls) : r.calls[i].call = name

MutatingCalls == {"values.append", "values.update", "batchUpdate"}

\* A store call of the request failed
CallFailed(r) == \E i \in 1..Len(r.calls) : ~r.calls[i].ok

\* The columns of x, y and r in the A:L layout
PositionCols == {9, 10, 11}

\* s without its row i
WithoutRow(s, i) == SubSeq(s, 1, i - 1) \o SubSeq(s, i + 1, Len(s))

\* The characters that make the sheet read a USER_ENTERED text as a formula
FormulaLeads == {"=", "+", "-", "@"}

\* The column in which the running server's Create writes the card's text:
\* the second entry of cardToRow's array, the third of src/app.js's row
TextCol == IF server = "app.js" THEN 3 ELSE 2

\* The column in which the running server's Create writes the creation
\* time: the last entry of cardToRow's array and of src/app.js's row
CreatedAtCol == IF server = "app.js" THEN 13 ELSE 12

(***************************************************************************)
(* C1: a successful Update position on the id of a stored card changes     *)
(* only the x, y and r cells of that card's row; every other cell of the   *)
(* row and every other row stay as they were.                              *)
(***************************************************************************)
C1_UpdateChangesOnlyPosition ==
    [][(res'.op = "PATCH" /\ res'.status = 200 /\ HoldsCard(store, res'.id))
        => /\ Len(store') = Len(store)
           /\ \A k \in 1..Len(store), j \in 1..SheetCols :
                 (k # RowOf(store, res'.id) \/ j \notin PositionCols)
                    => store'[k][j] = store[k][j]]_vars

(***************************************************************************)
(* C2: Delete with an id that no stored card has answers not-found (when   *)
(* the store answers), issues no mutating store call and leaves every row, *)
(* the header row included, unchanged.                                     *)
(***************************************************************************)
C2_DeleteAbsentMutatesNothing ==
    [][(res'.op = "DELETE" /\ ~HoldsCard(store, res'.id))
        => /\ CallsOk(res') => res'.status = 404
           /\ \A m \in MutatingCalls : ~Issued(res', m)
           /\ store' = store]_vars

(***************************************************************************)
(* C3: on part_000, Delete of the id of a stored card removes exactly the  *)
(* first row holding that id and keeps the other rows in order; a directly *)
(* following Update position on a remaining card's id succeeds and writes  *)
(* x, y, r into that card's row only, and the List after it shows them.    *)
(***************************************************************************)
C3_Delete ==
    (res'.op = "DELETE" /\ HoldsCard(store, res'.id))
       => /\ CallsOk(res') => res'.status = 200
          /\ res'.status = 200
                => store' = WithoutRow(store, RowOf(store, res'.id))
          /\ res'.status # 200 => store' = store

C3_UpdateAfterDelete ==
    (res.chain = 1 /\ res'.op = "PATCH" /\ HoldsCard(store, res'.id)
       /\ CallsOk(res'))
       => /\ res'.status = 200
          /\ Len(store') = Len(store)
          /\ \A k \in 1..Len(store) :
                IF k = RowOf(store, res'.id)
                THEN /\ store'[k][1] = res'.id
                     /\ store'[k][9] = res'.req.x
                     /\ store'[k][10] = res'.req.y
                     /\ store'[k][11] = res'.req.r
                ELSE store'[k] = store[k]

C3_ListAfterUpdate ==
    (res'.op = "GET" /\ CallsOk(res') /\ res'.calls # <<>>)
       => LET rows == CardRows(store')
          IN /\ Len(res'.body) = Len(rows)
             /\ \A k \in 1..Len(rows) :
                   /\ res'.body[k].id = rows[k][1]
                   /\ res'.body[k].x = NumOr(ParseNumber(rows[k][9]), "0")
                   /\ res'.body[k].y = NumOr(ParseNumber(rows[k][10]), "0")
                   /\ res'.body[k].r = NumOr(ParseNumber(rows[k][11]), "0")

C3_DeleteThenUpdateThenList ==
    [][server = "part_000"
         => C3_Delete /\ C3_UpdateAfterDelete /\ C3_ListAfterUpdate]_vars

\* A List answered right after an Update position that followed a Delete,
\* showing the position the Update wrote
C3_Witness ==
    /\ server = "part_000"
    /\ res.chain = 3
    /\ \E k \in 1..Len(res.body) :
          res.body[k].x = "10" /\ res.body[k].y = "20" /\ res.body[k].r = "0"

(***************************************************************************)
(* C4: Create is rejected with the capacity error and appends nothing when *)
(* the sheet holds MAX_CARDS cards, and appends one row when it holds      *)
(* MAX_CARDS - 1 cards and the other checks of the server pass.            *)
(***************************************************************************)
\* The checks of Create other than capacity
C4_OtherChecksPass(c) ==
    IF server = "part_000" THEN Len(c.text) <= MAX_TEXT
    ELSE 3 * Len(Join(c.parts)) * 10 <= 4 * MAX_IMAGE_SIZE_BYTES * 11

C4_CapacityBoundary ==
    [][(res'.op = "POST" /\ CallsOk(res'))
        => /\ (CardCount(store) >= MAX_CARDS /\ res'.calls # <<>>)
                 => /\ res'.status = 400
                    /\ res'.error = "Card limit reached"
                    /\ store' = store
           /\ (CardCount(store) = MAX_CARDS - 1 /\ C4_OtherChecksPass(res'.req))
                 => /\ res'.status = 201
                    /\ Len(store') = Len(store) + 1
                    /\ SubSeq(store', 1, Len(store)) = store
                    /\ store'[Len(store')][1] = res'.id]_vars

\* The capacity error, answered on a sheet that the MAX_CARDS-th Create
\* filled
C4_Witness ==
    /\ res.op = "POST"
    /\ res.error = "Card limit reached"
    /\ CardCount(store) = MAX_CARDS
    /\ Len(store) = 1 + MAX_CARDS

(***************************************************************************)
(* C5: Create is rejected and appends nothing whenever the estimated       *)
(* decoded size of the fragments, 0.75 bytes per base64 character, is      *)
(* above 1.1 times the byte budget.                                        *)
(***************************************************************************)
C5_OversizeRejected ==
    [][(res'.op = "POST"
          /\ 3 * Len(Join(res'.req.parts)) * 10 > 4 * MAX_IMAGE_SIZE_BYTES * 11)
        => res'.status # 201 /\ store' = store]_vars

(***************************************************************************)
(* C6: Create with a text of more than 500 characters is rejected and no   *)
(* call to the backing store is issued while the request is served.        *)
(***************************************************************************)
C6_LongTextNoStoreCall ==
    [][(res'.op = "POST" /\ Len(res'.req.text) > MAX_TEXT)
        => res'.status # 201 /\ res'.calls = <<>> /\ store' = store]_vars

(***************************************************************************)
(* C7: the fragments of splitBase64(body, 3), concatenated in order, are   *)
(* the body.                                                               *)
(***************************************************************************)
C7_JoinOfSplit == arr # <<>> => Join(arr) = str

\* A body of five characters has been split into 2 + 2 + 1
C7_Witness ==
    /\ arr # <<>>
    /\ Len(str) = 5
    /\ Len(arr[1]) = 2 /\ Len(arr[3]) = 1

(***************************************************************************)
(* C8 as stated: every fragment of splitBase64(body, 3) but the last has   *)
(* length ceil(len(body) / 3).                                             *)
(***************************************************************************)
C8_AllButLastFull ==
    arr # <<>> => \A i \in 1..2 : Len(arr[i]) = Ceil(Len(str), 3)

(***************************************************************************)
(* C8 amended: every fragment of splitBase64(body, 3) but the last has     *)
(* length ceil(len(body) / 3) unless the body has exactly one character,   *)
(* and then the fragments are the body followed by two empty strings.      *)
(***************************************************************************)
C8_AllButLastFullUnlessOneChar ==
    arr # <<>>
       => IF Len(str) = 1 THEN arr = <<str, "", "">>
          ELSE \A i \in 1..2 : Len(arr[i]) = Ceil(Len(str), 3)

\* A body of four characters has been split into 2 + 2 + 0
C8_Witness ==
    /\ arr # <<>>
    /\ Len(str) = 4
    /\ Len(arr[2]) = 2 /\ arr[3] = ""

(***************************************************************************)
(* C9 as stated: rowToCard(cardToRow(c)) is c in every field, except that  *)
(* empty fragments are dropped.                                            *)
(***************************************************************************)
C9_RoundTrip ==
    back # <<>> => back = [card EXCEPT !.parts = FilterParts(@)]

(***************************************************************************)
(* C9 amended: for a card whose id is not "id" or "ID",                    *)
(* rowToCard(cardToRow(c)) is c in every field, except that empty          *)
(* fragments are dropped, an empty style comes back as "polaroid" and an   *)
(* empty createdAt comes back as null; a card whose id is "id" or "ID"     *)
(* comes back as null.                                                     *)
(***************************************************************************)
C9_RoundTripUpToDefaults ==
    back # <<>>
       => IF card.id \in {"id", "ID"} THEN IsNull(back)
          ELSE back = [card EXCEPT
                          !.parts = FilterParts(@),
                          !.style = IF @ = "" THEN "polaroid" ELSE @,
                          !.createdAt = IF @ = "" THEN null ELSE @]

\* A card with an empty style, an empty createdAt and an empty middle
\* fragment has made the round trip
C9_Witness ==
    /\ back # <<>>
    /\ ~IsNull(back)
    /\ card.style = "" /\ card.createdAt = ""
    /\ Len(card.parts) = 3 /\ Len(back.parts) = 2

(***************************************************************************)
(* C10: on part_000, List returns one card per stored row, in row order,   *)
(* leaving out exactly the blank rows and the rows whose first field is    *)
(* "id" or "ID".                                                           *)
(***************************************************************************)
C10_ListIsCardRows ==
    (server = "part_000" /\ res.op = "GET" /\ CallsOk(res) /\ res.calls # <<>>)
       => LET rows == CardRows(store)
          IN /\ res.status = 200
             /\ Len(res.body) = Len(rows)
             /\ \A k \in 1..Len(rows) :
                   /\ ~IsNull(res.body[k])
                   /\ res.body[k].id = rows[k][1]
                   /\ res.body[k].text = rows[k][2]
                   /\ res.body[k].header = rows[k][5]

\* A List of a sheet with the header row, a row whose id is "id" and one
\* card: one card is returned
C10_Witness ==
    /\ server = "part_000" /\ res.op = "GET" /\ CallsOk(res)
    /\ res.calls # <<>>
    /\ Len(store) = 3
    /\ store[1][1] = "id" /\ store[2][1] = "id"
    /\ Len(res.body) = 1

(***************************************************************************)
(* C11: no text cell of the sheet begins with '=', '+', '-' or '@': every  *)
(* write path, the append of Create and the row overwrite of Update        *)
(* position, writes such a text with a neutralizing prefix.                *)
(***************************************************************************)
C11_NoFormulaText ==
    \A k \in 1..Len(store) : CharAt(store[k][TextCol], 0) \notin FormulaLeads

(***************************************************************************)
(* C12: the row a successful Create appends holds exactly 12 fields, in    *)
(* the order id, text, mood, style, header, fragment0, fragment1,          *)
(* fragment2, x, y, r, createdAt, each with the value that was submitted.  *)
(***************************************************************************)
C12_AppendedRowLayout ==
    [][(res'.op = "POST" /\ res'.status = 201)
        => LET c == res'.req
               r == store'[Len(store')]
           IN /\ Len(store') = Len(store) + 1
              /\ r[1] = c.id /\ r[2] = c.text /\ r[3] = c.mood
              /\ r[4] = c.style /\ r[5] = c.header
              /\ r[6] = PartOr(c, 1) /\ r[7] = PartOr(c, 2)
              /\ r[8] = PartOr(c, 3)
              /\ r[9] = c.x /\ r[10] = c.y /\ r[11] = c.r
              /\ r[12] = c.createdAt
              /\ r[13] = ""]_vars

(***************************************************************************)
(* C13: for every budget B and every assignment of encoded sizes to the    *)
(* quality settings, processImageFileSpecV2 ends either returning an image *)
(* of size at most B or with the size-exceeded error, and it ends with the *)
(* error only when every encoding it tried was larger than B.              *)
(***************************************************************************)
C13_WithinBudgetOrError ==
    img.pc = "done"
       => /\ img.result \in {"ok", "SizeExceeded"}
          /\ img.result = "ok"
                => /\ img.sizeBytes <= img.targetMaxBytes
                   /\ img.sizeBytes = img.tried[Len(img.tried)].size
          /\ img.result = "SizeExceeded"
                => \A k \in 1..Len(img.tried) :
                      img.tried[k].size > img.targetMaxBytes

\* The image fitted the budget only at the last quality the loop tries
C13_Witness ==
    /\ img.pc = "done"
    /\ img.result = "ok"
    /\ Len(img.tried) = 6
    /\ img.sizeBytes = img.targetMaxBytes

(***************************************************************************)
(* C14: on part_000 without a sheets client, Create, Update position and   *)
(* Delete answer 503 "Storage unavailable", List answers 200 with an empty *)
(* list, and none of them issues a store call or changes the sheet.        *)
(***************************************************************************)
C14_UnconfiguredStorage ==
    (server = "part_000" /\ ~sheets)
       => /\ store = <<AsCells(COLUMNS)>>
          /\ cachedSheetTitle = ""
          /\ res.calls = <<>>
          /\ res.op = "GET" => res.status = 200 /\ res.body = <<>>
          /\ res.op \in {"POST", "PATCH", "DELETE"}
                => res.status = 503 /\ res.error = "Storage unavailable"

\* A Delete answered 503 by the server without a sheets client
C14_Witness ==
    /\ server = "part_000" /\ ~sheets
    /\ res.op = "DELETE" /\ res.status = 503

(***************************************************************************)
(* C15: on part_000, a List whose metadata fetch or store read fails is    *)
(* still answered with success and an empty list of cards, without an      *)
(* error, and leaves the sheet unchanged.                                  *)
(***************************************************************************)
C15_ListDegradesToEmpty ==
    [][(server = "part_000" /\ res'.op = "GET" /\ CallFailed(res'))
        => /\ res'.status = 200
           /\ res'.error = ""
           /\ res'.body = <<>>
           /\ store' = store]_vars

\* A List answered with the empty list, after its read failed, by a sheet
\* that holds a card
C15_Witness ==
    /\ server = "part_000"
    /\ res.op = "GET" /\ res.status = 200 /\ res.body = <<>>
    /\ res.calls = <<Call("values.get", FALSE)>>
    /\ CardCount(store) >= 1

(***************************************************************************)
(* C16: no two card rows of the sheet part_000 serves have the same id.    *)
(***************************************************************************)
C16_IdsUnique ==
    server = "part_000"
       => \A i, j \in 1..Len(store) :
             (i # j /\ IsCardRow(store[i]) /\ IsCardRow(store[j]))
                => store[i][1] # store[j][1]

(***************************************************************************)
(* C17: no Update, whatever fields its body carries, changes the id cell   *)
(* or the createdAt cell of a stored row.                                  *)
(***************************************************************************)
C17_UpdateKeepsIdAndCreatedAt ==
    [][res'.op = "PATCH"
        => \A k \in 1..Len(store) :
              /\ k <= Len(store')
              /\ store'[k][1] = store[k][1]
              /\ store'[k][CreatedAtCol] = store[k][CreatedAtCol]]_vars

(***************************************************************************)
(* C18: every card the List of part_000 returns has a fragments sequence   *)
(* of length 0 or 3, the stored cards being created with no image or with  *)
(* the three fragments of splitBase64(body, 3).                            *)
(***************************************************************************)
C18_FragmentsNoneOrThree ==
    (server = "part_000" /\ res.op = "GET" /\ res.status = 200)
       => \A k \in 1..Len(res.body) :
             LET c == res.body[k]
                 n == IF "parts" \in DOMAIN c THEN Len(c.parts) ELSE 0
             IN n \in {0, 3}

(***************************************************************************)
(* Vocabulary of C19: the requests in flight that can add a row            *)
(***************************************************************************)
\* The Creates in flight that passed the capacity check
C19_Passed ==
    {p \in Procs : /\ procs[p].op = "POST"
                   /\ procs[p].pc = "write" \/ procs[p].status = 201}

\* The Updates in flight that found their row
C19_Updating ==
    {p \in Procs : /\ procs[p].op = "PATCH"
                   /\ procs[p].pc = "write" \/ procs[p].status = 200}

(***************************************************************************)
(* C19: Creates in flight together each pass the capacity check on the     *)
(* count their own scan saw, fewer than MAX_CARDS cards, whatever the      *)
(* others append before their own append, so the sheet can hold more than  *)
(* MAX_CARDS cards; it never holds more than MAX_CARDS - 1 cards plus one  *)
(* card for every request in flight that can add a row: a Create that      *)
(* passed the check or an Update that found its row.                       *)
(***************************************************************************)
C19_RacingCreatesExceedBy ==
    /\ \A p \in C19_Passed : procs[p].count < MAX_CARDS
    /\ CardCount(store)
          <= IF C19_Passed = {} THEN MAX_CARDS
             ELSE MAX_CARDS - 1 + Cardinality(C19_Passed \cup C19_Updating)

\* Two Creates both counted MAX_CARDS - 1 cards and both appended: the
\* sheet holds MAX_CARDS + 1 cards
C19_Witness ==
    /\ CardCount(store) = MAX_CARDS + 1
    /\ \E p, q \in Procs :
          /\ p # q
          /\ procs[p].op = "POST" /\ procs[p].status = 201
          /\ procs[q].op = "POST" /\ procs[q].status = 201
          /\ procs[p].count = MAX_CARDS - 1
          /\ procs[q].count = MAX_CARDS - 1

(***************************************************************************)
(* Vocabulary of C20: the write of an Update or a Delete in flight         *)
(***************************************************************************)
\* The request p makes its index-addressed write in this step
C20_Writes(p) ==
    /\ procs[p].pc = "write"
    /\ procs[p].op \in {"PATCH", "DELETE"}
    /\ procs'[p].pc = "done"

\* The 1-indexed row the write of p addresses
C20_Target(p) == procs[p].rowIndex + 1

\* The write of p acts on the row t and on no other row, and p answers
\* success
C20_ActsOn(p, t) ==
    /\ procs'[p].status = 200
    /\ IF procs[p].op = "DELETE"
       THEN store' = IF t <= Len(store) THEN WithoutRow(store, t) ELSE store
       ELSE /\ Len(store') >= t
            /\ store'[t][9] = procs[p].req.x
            /\ store'[t][10] = procs[p].req.y
            /\ store'[t][11] = procs[p].req.r
            /\ \A k \in 1..Len(store) : k # t => store'[k] = store[k]

(***************************************************************************)
(* C20 as stated: when a Delete completed between the row scan of an       *)
(* Update or Delete and its index-addressed write, the write goes to a row *)
(* other than the one holding the request's id, or past the end, and the   *)
(* request answers success.                                                *)
(***************************************************************************)
C20_AnyDeleteMisdirects ==
    [][\A p \in Procs :
          (C20_Writes(p) /\ procs[p].deleted)
             => /\ C20_Target(p) # RowOf(store, procs[p].id)
                /\ procs'[p].status = 200]_vars

(***************************************************************************)
(* C20 amended: when a Delete that completed between the row scan of an    *)
(* Update or Delete and its index-addressed write removed the scanned row  *)
(* or a row above it, the write goes to the row at the scanned index,      *)
(* which is below the row the scan found, or past the end; the row the     *)
(* scan found stays as it is, and the request answers success.  When the   *)
(* Deletes removed only rows below, the write goes to the row the scan     *)
(* found.                                                                  *)
(***************************************************************************)
C20_DeleteAboveMisdirects ==
    [][\A p \in Procs :
          C20_Writes(p)
             => /\ C20_ActsOn(p, C20_Target(p))
                /\ procs[p].found \in {0, C20_Target(p)}
                   \/ /\ procs[p].deleted
                      /\ procs[p].found < C20_Target(p)
                      /\ store'[procs[p].found] = store[procs[p].found]]_vars

\* An Update of b found b in row 3, a Delete removed row 2, and the Update
\* wrote its position into row 3 and answered success while b, now in row
\* 2, keeps its position
C20_Witness ==
    \E p \in Procs :
       /\ procs[p].op = "PATCH" /\ procs[p].status = 200
       /\ procs[p].deleted
       /\ procs[p].rowIndex = 2 /\ procs[p].found = 2
       /\ Len(store) = 3
       /\ store[2][1] = procs[p].id /\ store[2][9] # procs[p].req.x
       /\ store[3][1] = procs[p].id /\ store[3][9] = procs[p].req.x

(***************************************************************************)
(* C21: the metadata fetch (spreadsheets.get) is issued at most once in    *)
(* the life of the process, whatever the interleaving of the requests:     *)
(* at most one request in flight or answered has issued it.                *)
(***************************************************************************)
C21_MetadataFetchedOnce ==
    Cardinality({p \in Procs : procs[p].fetched}) <= 1

(***************************************************************************)
(* C22: on part_000, a Create, Update position or Delete one of whose      *)
(* store calls failed (the metadata fetch, the row scan or the write) is   *)
(* answered with the generic failure, status 500, and issued no store call *)
(* a second time.                                                          *)
(***************************************************************************)
C22_FailedCallGivesFailure ==
    (/\ server = "part_000"
     /\ res.op \in {"POST", "PATCH", "DELETE"}
     /\ CallFailed(res))
       => /\ res.status = 500
          /\ \A i, j \in 1..Len(res.calls) :
                res.calls[i].call = res.calls[j].call => i = j

(***************************************************************************)
(* Vocabulary of C23: the order of the encodings                           *)
(***************************************************************************)
\* The encodings made so far are at most six, at 0.9 and then 0.1 lower
\* each time, every one but the last was larger than the budget and made
\* at a quality of 0.5 or more; a returned image is the last encoding and
\* fits the budget; the error follows an encoding below 0.5 that is still
\* larger than the budget
C23_Schedule ==
    LET n == Len(img.tried)
        B == img.targetMaxBytes
    IN /\ n <= 6
       /\ \A k \in 1..n : img.tried[k].quality = 10 - k
       /\ \A k \in 1..(n - 1) :
             img.tried[k].size > B /\ img.tried[k].quality >= 5
       /\ img.pc = "done"
             => /\ n >= 1
                /\ img.result \in {"ok", "SizeExceeded"}
                /\ img.result = "ok"
                      => /\ img.tried[n].size <= B
                         /\ img.sizeBytes = img.tried[n].size
                /\ img.result = "SizeExceeded"
                      => /\ img.tried[n].quality < 5
                         /\ img.tried[n].size > B

(***************************************************************************)
(* C23: processImageFileSpecV2 always ends, after at most six encodings:   *)
(* the first at quality 0.9, the next ones 0.1 lower each time and made    *)
(* only while the last size is above the budget B and the quality is at    *)
(* least 0.5; it returns the first encoding in that order of size at most  *)
(* B, and ends with the size-exceeded error only after an encoding below   *)
(* quality 0.5 that is still larger than B.                                *)
(***************************************************************************)
C23_EndsWithinSixEncodings == []C23_Schedule /\ <>(img.pc = "done")

\* All six encodings were larger than the budget: the error, after the
\* encoding at quality 0.4
C23_Witness ==
    /\ img.pc = "done"
    /\ img.result = "SizeExceeded"
    /\ Len(img.tried) = 6
    /\ img.tried[6].quality = 4

(***************************************************************************)
(* C28: in every sequential execution from a sheet of at most MAX_CARDS    *)
(* cards, store reads failing or not, the sheet part_000 serves never      *)
(* holds more than MAX_CARDS valid card rows.                              *)
(***************************************************************************)
C28_NeverAboveMaxCards ==
    server = "part_000" => CardCount(store) <= MAX_CARDS

(***************************************************************************)
(* C24: a Create that is rejected, for its text, for capacity or for the   *)
(* size of its image, issues no append or other write to the store and     *)
(* leaves every row as it was; the rejection of the text comes before the  *)
(* read of the rows and the rejection for capacity after it.               *)
(***************************************************************************)
C24_RejectedCreateWritesNothing ==
    [][(res'.op = "POST" /\ res'.status = 400)
        => /\ res'.error \in {"Text too long", "Card limit reached",
                              "Image too large"}
           /\ \A m \in MutatingCalls : ~Issued(res', m)
           /\ store' = store
           /\ res'.error = "Text too long" => ~Issued(res', "values.get")
           /\ res'.error = "Card limit reached"
                 => /\ Issued(res', "values.get")
                    /\ CardCount(store) >= MAX_CARDS]_vars

\* A Create rejected for its text of 501 characters, at a sheet holding a
\* card, without a read of the rows
C24_Witness ==
    /\ res.op = "POST" /\ res.status = 400
    /\ res.error = "Text too long"
    /\ Len(res.req.text) = MAX_TEXT + 1
    /\ ~Issued(res, "values.get")
    /\ CardCount(store) >= 1

(***************************************************************************)
(* C25: for every body, the card whose fragments are splitBase64(body, 3), *)
(* laid out by cardToRow and read back by rowToCard, has fragments whose   *)
(* concatenation in order is the body, empty fragments dropped or not, and *)
(* its image source, header followed by the joined fragments, is the one   *)
(* the card had before it was stored.                                      *)
(***************************************************************************)
C25_StoredFragmentsJoinToBody ==
    back # <<>>
       => /\ ~IsNull(back)
          /\ Join(back.parts) = str
          /\ fullSrc(back) = fullSrc(card)
          /\ fullSrc(back) = DataUrlHeader \o str

\* A body of four characters comes back as the two fragments left of its
\* three, the empty one dropped
C25_Witness ==
    /\ back # <<>>
    /\ Len(str) = 4
    /\ Len(card.parts) = 3
    /\ Len(back.parts) = 2
    /\ Join(back.parts) = str

(***************************************************************************)
(* C26: after any sequence of Update position and Delete requests with any *)
(* id, "id" and "ID" included, the header row is still the first row of    *)
(* the sheet and unchanged.                                                *)
(***************************************************************************)
C26_HeaderRowKept ==
    /\ Len(store) >= 1
    /\ store[1] = AsCells(COLUMNS)

(***************************************************************************)
(* C27: on part_000, with one request at a time and no store call failing, *)
(* after a Create answered with success the List shows a card with the     *)
(* created id, and the valid cards the capacity check counts are one more  *)
(* than before the Create, whatever id the Create carried.                 *)
(***************************************************************************)
C27_CreatedCardListedAndCounted ==
    [][(/\ server = "part_000"
        /\ res'.op = "POST" /\ res'.status = 201
        /\ CallsOk(res'))
        => /\ \E k \in 1..Len(getCards(NoFault).body') :
                 getCards(NoFault).body'[k].id = res'.id
           /\ Len(ValidCards(ReadRange(store')))
                 = Len(ValidCards(ReadRange(store))) + 1]_vars

(***************************************************************************)
(* C29: whatever the user does while the timer of a printed card runs      *)
(* (mood, style, upload, another Print click), the record saveCard POSTs   *)
(* for the card carries the mood, the style and the image the card element *)
(* got when Print was clicked.                                             *)
(***************************************************************************)
C29_SavedAsPrinted ==
    [][\A k \in 1..Len(client.cards) :
          (/\ Len(client'.cards) = Len(client.cards)
           /\ client.cards[k].printing
           /\ ~client'.cards[k].printing)
             => /\ res'.op = "POST"
                /\ res'.req.id = client.cards[k].cardId
                /\ res'.req.mood = client.cards[k].mood
                /\ res'.req.style = client.cards[k].style
                /\ fullSrc(res'.req) = client.cards[k].src]_vars

(***************************************************************************)
(* C30: the delete button's handler takes a card element off the wall only *)
(* when the server's answer to the DELETE reported success; after a delete *)
(* attempt the wall shows no fewer cards than the sheet holds.             *)
(***************************************************************************)
C30_RemovedOnlyOnSuccess ==
    [][Len(client'.cards) < Len(client.cards)
          => /\ res'.op = "DELETE"
             /\ res'.status = 200
             /\ Len(client'.cards) >= CardCount(store')]_vars

====
